---- MODULE Spec2Model ----
(***************************************************************************)
(* Streaming message exchange and conversation-state management of the     *)
(* EyeQ web interface (web-interface/src/ChatContext.tsx and               *)
(* web-interface/src/components/ChatInterface.tsx).                        *)
(*                                                                         *)
(* Conventions                                                             *)
(*  - A JavaScript string is a sequence of one-character strings, so that  *)
(*    concatenation, trimming, slicing and prefix matching are computed.   *)
(*    A fixed message of the program that no operation looks into is a     *)
(*    one-element sequence holding the whole text.                         *)
(*  - null / undefined is NULL for ids, NoAnalysis for analysis; optional   *)
(*    boolean fields (isStreaming, isError, pinned) are FALSE when absent. *)
(*  - Every action is one task of the browser's event loop: the code run   *)
(*    from a user event or from the resumption of an await up to the next  *)
(*    await.  React applies the state updates queued by a task in order,   *)
(*    so a task is the sequential composition of its updates.              *)
(*  - A handler's closure values (messages, conversations,                 *)
(*    currentConversationId) are those of the render that preceded the     *)
(*    call; they are stored in the exchange record where later steps of    *)
(*    the handler read them.                                               *)
(*  - Date.now() is a non-decreasing millisecond clock.  A handler call is  *)
(*    a user event and happens 1 ms or more after the previous reading;    *)
(*    sendMessage, which takes ids from the clock at the call, is explored *)
(*    at 1 ms, and at 2 ms where that makes a difference (a message on     *)
(*    screen has the id 1 ms would give).                                  *)
(*    The resumption of an await reads the clock in the                    *)
(*    millisecond of the previous reading, the earliest the clock allows.  *)
(*    Ids are only compared for equality, and this keeps both outcomes of  *)
(*    each comparison the handlers make reachable.                         *)
(*  - timestamp / createdAt / updatedAt carry no behaviour in the handlers *)
(*    and are not part of the message and conversation records here.       *)
(***************************************************************************)
EXTENDS Integers, Sequences, FiniteSets, TLC

\* ------------------------------------------------------------------ bounds
\* user events of a behaviour: those that start an exchange (a handler call
\* that reaches the analysis request), those that rewrite the conversation
\* list (delete, rename, pin, clear all), and moves between conversations
\* made after the first exchange has started
MaxEvents == 2
\* read() results that carry data, over all exchanges of a behaviour
MaxReads == 2
\* largest value of the millisecond clock
MaxClock == 6
\* pending setTimeout(0) title callbacks
MaxTimers == 1
NULL == 0

\* ----------------------------------------------------------------- strings
Str(s) == <<s>>

NewChat == <<"N", "e", "w", " ", "C", "h", "a", "t">>

SendApology ==
  Str("I apologize, but I encountered an error processing your request. Please try again.")

RegenerateApology ==
  Str("I apologize, but I encountered an error regenerating the response. Please try again.")

EditApology ==
  Str("I apologize, but I encountered an error processing your edited message. Please try again.")

DefaultFileMessage == Str("Please analyze this uploaded file for compliance.")

LowerLetters ==
  <<"a","b","c","d","e","f","g","h","i","j","k","l","m",
    "n","o","p","q","r","s","t","u","v","w","x","y","z">>

UpperLetters ==
  <<"A","B","C","D","E","F","G","H","I","J","K","L","M",
    "N","O","P","Q","R","S","T","U","V","W","X","Y","Z">>

ToUpperCase(c) ==
  IF \E i \in 1..26 : LowerLetters[i] = c
    THEN UpperLetters[CHOOSE i \in 1..26 : LowerLetters[i] = c]
    ELSE c

ToLowerCase(c) ==
  IF \E i \in 1..26 : UpperLetters[i] = c
    THEN LowerLetters[CHOOSE i \in 1..26 : UpperLetters[i] = c]
    ELSE c

IsSpace(c) == c \in {" ", "\n", "\t"}

RECURSIVE TrimStart(_)
TrimStart(s) ==
  IF s # <<>> /\ IsSpace(Head(s)) THEN TrimStart(Tail(s)) ELSE s

RECURSIVE TrimEnd(_)
TrimEnd(s) ==
  IF s # <<>> /\ IsSpace(s[Len(s)]) THEN TrimEnd(SubSeq(s, 1, Len(s) - 1)) ELSE s

Trim(s) == TrimEnd(TrimStart(s))

\* the alternatives of the prefix pattern, in the order of the alternation
FillerPrefixes ==
  << <<"p","l","e","a","s","e">>,
     <<"c","a","n"," ","y","o","u">>,
     <<"c","o","u","l","d"," ","y","o","u">>,
     <<"h","e","l","p"," ","m","e">>,
     <<"i"," ","n","e","e","d">>,
     <<"a","n","a","l","y","z","e">>,
     <<"r","e","v","i","e","w">>,
     <<"c","h","e","c","k">> >>

StartsWithIgnoreCase(s, p) ==
  /\ Len(s) >= Len(p)
  /\ \A i \in 1..Len(p) : ToLowerCase(s[i]) = p[i]

\* title.replace(/^(please|can you|...|check)/i, '')
StripFillerPrefix(s) ==
  IF \E k \in 1..Len(FillerPrefixes) : StartsWithIgnoreCase(s, FillerPrefixes[k])
    THEN LET k == CHOOSE j \in 1..Len(FillerPrefixes) :
                    /\ StartsWithIgnoreCase(s, FillerPrefixes[j])
                    /\ \A h \in 1..(j - 1) : ~StartsWithIgnoreCase(s, FillerPrefixes[h])
         IN  SubSeq(s, Len(FillerPrefixes[k]) + 1, Len(s))
    ELSE s

TitleLimit == 50

TitleKeep == 47

Ellipsis == <<".", ".", ".">>

\* a truncation that keeps TitleLimit characters in front of the ellipsis
TruncateAtLimit(s) ==
  IF Len(s) > TitleLimit THEN SubSeq(s, 1, TitleLimit) \o Ellipsis ELSE s

Truncate(s) ==
  IF Len(s) > TitleLimit THEN SubSeq(s, 1, TitleKeep) \o Ellipsis ELSE s

Capitalize(s) ==
  IF s = <<>> THEN <<>> ELSE <<ToUpperCase(Head(s))>> \o Tail(s)

\* Each statement of the body works on the value the statement before it
\* left in title (a one-element set binds that value).
generateTitleFromMessage(message) ==
  LET trimmed == {Trim(m) : m \in {message}}
      replaced == {StripFillerPrefix(t) : t \in trimmed}
      trimmedAgain == {Trim(t) : t \in replaced}
      truncated == {Truncate(t) : t \in trimmedAgain}
      capitalized == {Capitalize(t) : t \in truncated}
  IN  CHOOSE title \in {IF t = <<>> THEN NewChat ELSE t : t \in capitalized} : TRUE

\* ------------------------------------------------------------------- state
VARIABLES
  conversations,          \* ChatProvider state: Conversation[]
  store,                  \* localStorage['eyeq_conversations'] (<<>> when unset)
  currentConversationId,  \* ChatProvider state: string | null
  isLoading,              \* ChatInterface state
  now,                    \* last value read from Date.now()
  timers,                 \* pending setTimeout(0) callbacks: updateConversationTitle(id, title)
  exch,                   \* the handler calls in flight or returned, in call order
  ops,                    \* sidebar / settings operations performed
  reads,                  \* read() results that carried data
  call                    \* the step taken last: [op, arg]

vars == <<conversations, store, currentConversationId, isLoading, now, timers, exch, ops,
          reads, call>>

Call(op, arg) == [op |-> op, arg |-> arg]

\* Message.file: present = the optional field is set; content = file.content
NoFile == [present |-> FALSE, content |-> <<>>]

NoAnalysis == "<null>"

UserMessage(id, content) ==
  [id |-> id, type |-> "user", content |-> content, file |-> NoFile,
   analysis |-> NoAnalysis, isStreaming |-> FALSE, isError |-> FALSE]

AssistantMessage(id, content, analysis, isStreaming) ==
  [id |-> id, type |-> "assistant", content |-> content, file |-> NoFile,
   analysis |-> analysis, isStreaming |-> isStreaming, isError |-> FALSE]

ErrorMessage(id, content) ==
  [id |-> id, type |-> "assistant", content |-> content, file |-> NoFile,
   analysis |-> NoAnalysis, isStreaming |-> FALSE, isError |-> TRUE]

\* Array.prototype.findIndex, 1-based; 0 when nothing matches (-1 in the code)
FindIndex(seq, P(_)) ==
  IF \E i \in 1..Len(seq) : P(seq[i])
    THEN CHOOSE i \in 1..Len(seq) : P(seq[i]) /\ \A j \in 1..(i - 1) : ~P(seq[j])
    ELSE 0

\* ------------------------------------------------- Conversation Repository
\* The operations below take and return the repository part of the state,
\* R = [conversations, store, timers], so that a task can chain them.

Repo == [conversations |-> conversations, store |-> store, timers |-> timers]

saveConversationsToLocal(R, conversationsToSave) ==
  [R EXCEPT !.store = conversationsToSave]

updateConversationTitle(R, id, title) ==
  LET updatedConversations ==
        [i \in 1..Len(R.conversations) |->
           IF R.conversations[i].id = id
             THEN [R.conversations[i] EXCEPT !.title = title]
             ELSE R.conversations[i]]
  IN  saveConversationsToLocal([R EXCEPT !.conversations = updatedConversations],
                               updatedConversations)

\* variant: the write goes to the first conversation of the list
updateCurrentMessagesFirst(R, newMessages, targetConversationId, current) ==
  LET conversationIdToUpdate ==
        IF targetConversationId # NULL THEN targetConversationId ELSE current
      updatedConversations ==
        [i \in 1..Len(R.conversations) |->
           IF i = 1
             THEN [R.conversations[i] EXCEPT !.messages = newMessages]
             ELSE R.conversations[i]]
      ci == FindIndex(updatedConversations, LAMBDA c : c.id = conversationIdToUpdate)
      ui == FindIndex(newMessages, LAMBDA m : m.type = "user")
      saved == saveConversationsToLocal([R EXCEPT !.conversations = updatedConversations],
                                        updatedConversations)
  IN  IF conversationIdToUpdate = NULL
        THEN R
        ELSE IF /\ ci # 0
                /\ updatedConversations[ci].title = NewChat
                /\ Len(newMessages) > 0
                /\ ui # 0
               THEN [saved EXCEPT !.timers =
                       Append(@, [id |-> conversationIdToUpdate,
                                  title |-> generateTitleFromMessage(newMessages[ui].content)])]
               ELSE saved

\* variant: a conversation that is not in the list is added with the messages
updateCurrentMessagesUpsert(R, newMessages, targetConversationId, current) ==
  LET conversationIdToUpdate ==
        IF targetConversationId # NULL THEN targetConversationId ELSE current
      mapped ==
        [i \in 1..Len(R.conversations) |->
           IF R.conversations[i].id = conversationIdToUpdate
             THEN [R.conversations[i] EXCEPT !.messages = newMessages]
             ELSE R.conversations[i]]
      updatedConversations ==
        IF \E i \in 1..Len(mapped) : mapped[i].id = conversationIdToUpdate
          THEN mapped
          ELSE Append(mapped, [id |-> conversationIdToUpdate, title |-> NewChat,
                               messages |-> newMessages, pinned |-> FALSE])
  IN  IF conversationIdToUpdate = NULL
        THEN R
        ELSE saveConversationsToLocal([R EXCEPT !.conversations = updatedConversations],
                                      updatedConversations)

updateCurrentMessages(R, newMessages, targetConversationId, current) ==
  LET conversationIdToUpdate ==
        IF targetConversationId # NULL THEN targetConversationId ELSE current
      updatedConversations ==
        [i \in 1..Len(R.conversations) |->
           IF R.conversations[i].id = conversationIdToUpdate
             THEN [R.conversations[i] EXCEPT !.messages = newMessages]
             ELSE R.conversations[i]]
      ci == FindIndex(updatedConversations, LAMBDA c : c.id = conversationIdToUpdate)
      ui == FindIndex(newMessages, LAMBDA m : m.type = "user")
      saved == saveConversationsToLocal([R EXCEPT !.conversations = updatedConversations],
                                        updatedConversations)
  IN  IF conversationIdToUpdate = NULL
        THEN R
        ELSE IF /\ ci # 0
                /\ updatedConversations[ci].title = NewChat
                /\ Len(newMessages) > 0
                /\ ui # 0
               THEN [saved EXCEPT !.timers =
                       Append(@, [id |-> conversationIdToUpdate,
                                  title |-> generateTitleFromMessage(newMessages[ui].content)])]
               ELSE saved

createConversationOnFirstMessage(R, closureConversations, newId) ==
  LET newConversations ==
        Append(closureConversations,
               [id |-> newId, title |-> NewChat, messages |-> <<>>, pinned |-> FALSE])
  IN  saveConversationsToLocal([R EXCEPT !.conversations = newConversations],
                               newConversations)

ConversationIds == {conversations[i].id : i \in 1..Len(conversations)}

\* the messages the ChatInterface render shows: those of the active conversation
RenderedMessages ==
  LET ci == FindIndex(conversations, LAMBDA c : c.id = currentConversationId)
  IN  IF ci = 0 THEN <<>> ELSE conversations[ci].messages

\* What an earlier session left in localStorage: one conversation with a
\* completed exchange (ids from that session's clock).
OldTitle == <<"O", "l", "d">>

OldConversation ==
  [id |-> 1, title |-> OldTitle, pinned |-> FALSE,
   messages |-> <<UserMessage(1, <<"h", "i">>),
                  AssistantMessage(2, <<"y", "o">>, NoAnalysis, FALSE)>>]

\* the clock when the page is loaded, later than every stored id
StartClock == 2

\* ChatProvider: conversations from localStorage, no current conversation
InitWith(stored) ==
  /\ store = stored
  /\ conversations = stored
  /\ currentConversationId = NULL
  /\ isLoading = FALSE
  /\ now = StartClock
  /\ timers = <<>>
  /\ exch = <<>>
  /\ ops = 0
  /\ reads = 0
  /\ call = Call("init", NULL)

\* the page loaded over the storage of an earlier session
Init == InitWith(<<OldConversation>>)

\* the page loaded for the first time: nothing stored
InitFresh == InitWith(<<>>)

SetRepo(R) ==
  /\ Len(R.timers) <= MaxTimers
  /\ conversations' = R.conversations
  /\ store' = R.store
  /\ timers' = R.timers

\* the behaviour has a counted event left
EventLeft == Len(exch) + ops < MaxEvents

\* a move between conversations: counted once an exchange has started
Moved ==
  IF exch = <<>> /\ ops = 0
    THEN ops' = ops
    ELSE EventLeft /\ ops' = ops + 1

\* ------------------------------------------------ sidebar / settings steps
\* variant: the 'new chat' action adds an empty conversation and opens it
createNewConversationCreates ==
  /\ Moved
  /\ SetRepo(createConversationOnFirstMessage(Repo, conversations, now))
  /\ currentConversationId' = now
  /\ UNCHANGED <<isLoading, now, exch, reads>>
  /\ call' = Call("createNewConversation", now)

\* every path returns null; the call record keeps the value returned
createNewConversation ==
  /\ Moved
  /\ currentConversationId' = NULL
  /\ UNCHANGED <<conversations, store, isLoading, now, timers, exch, reads>>
  /\ call' = Call("createNewConversation", NULL)

switchConversation(id) ==
  /\ Moved
  /\ currentConversationId' = id
  /\ UNCHANGED <<conversations, store, isLoading, now, timers, exch, reads>>
  /\ call' = Call("switchConversation", id)

deleteConversation(id) ==
  LET updatedConversations == SelectSeq(conversations, LAMBDA c : c.id # id)
  IN  /\ EventLeft
      /\ ops' = ops + 1
      /\ currentConversationId' =
           IF currentConversationId = id
             THEN IF updatedConversations # <<>> THEN updatedConversations[1].id ELSE NULL
             ELSE currentConversationId
      /\ conversations' = updatedConversations
      /\ store' = updatedConversations
      /\ UNCHANGED <<isLoading, now, timers, exch, reads>>
  /\ call' = Call("deleteConversation", id)

renameConversation(id, newTitle) ==
  /\ EventLeft
  /\ ops' = ops + 1
  /\ SetRepo(updateConversationTitle(Repo, id, newTitle))
  /\ UNCHANGED <<currentConversationId, isLoading, now, exch, reads>>
  /\ call' = Call("renameConversation", id)

toggleConversationPin(id) ==
  LET updatedConversations ==
        [i \in 1..Len(conversations) |->
           IF conversations[i].id = id
             THEN [conversations[i] EXCEPT !.pinned = ~@]
             ELSE conversations[i]]
  IN  /\ EventLeft
      /\ ops' = ops + 1
      /\ conversations' = updatedConversations
      /\ store' = updatedConversations
      /\ UNCHANGED <<currentConversationId, isLoading, now, timers, exch, reads>>
  /\ call' = Call("toggleConversationPin", id)

clearAllConversations ==
  /\ EventLeft
  /\ ops' = ops + 1
  /\ conversations' = <<>>
  /\ currentConversationId' = NULL
  /\ UNCHANGED <<store, isLoading, now, timers, exch, reads>>
  /\ call' = Call("clearAllConversations", NULL)

\* the setTimeout(0) callback scheduled by updateCurrentMessages
TitleTimer ==
  /\ timers # <<>>
  /\ SetRepo(updateConversationTitle([Repo EXCEPT !.timers = Tail(@)],
                                     Head(timers).id, Head(timers).title))
  /\ UNCHANGED <<currentConversationId, isLoading, now, exch, ops, reads>>
  /\ call' = Call("TitleTimer", Head(timers).id)

\* ------------------------------------------------ Streaming Exchange Client
\* A parsed JSON event: absent fields are the empty string / FALSE / NoAnalysis,
\* which the code's truthiness tests do not tell from absent ones.
Event(chunk, done, full_response, analysis, error) ==
  [chunk |-> chunk, done |-> done, full_response |-> full_response,
   analysis |-> analysis, error |-> error]

NoEvent == Event(<<>>, FALSE, <<>>, NoAnalysis, <<>>)

\* A complete line of the body: data = it starts with 'data: ';
\* valid = JSON.parse accepts the rest; json = the parsed value.
DataLine(json) == [data |-> TRUE, valid |-> TRUE, json |-> json]

MalformedLine == [data |-> TRUE, valid |-> FALSE, json |-> NoEvent]

BlankLine == [data |-> FALSE, valid |-> FALSE, json |-> NoEvent]

ChunkLine(c) == DataLine(Event(c, FALSE, <<>>, NoAnalysis, <<>>))

DoneLine(full, analysis) == DataLine(Event(<<>>, TRUE, full, analysis, <<>>))

ErrorLine == DataLine(Event(<<>>, FALSE, <<>>, NoAnalysis, Str("backend error")))

\* The lines the backend is taken to send.  The chunk events of a response
\* carry different texts: the n-th chunk event of the k-th handler call
\* carries the text ChunkText(k, n), so that a chunk that is
\* dropped, repeated or out of place shows in the content.
ChunkText(k, n) == <<"c" \o ToString(k) \o "." \o ToString(n)>>

FullResponse == <<"F">>

AnalysisObject == "R"

DataKinds == {"malformed", "error", "chunk", "done", "doneFull"}

LineKinds == DataKinds \cup {"blank"}

\* complete lines carried by one read() result
MaxLines == 2

\* A read() result is one line of any kind or several "data: " lines: the
\* blank lines between events change nothing wherever they stand.
ReadKinds ==
  {<<kind>> : kind \in LineKinds} \cup UNION {[1..n -> DataKinds] : n \in 2..MaxLines}

\* the line of a kind, when n chunk events arrived before it
LineOfKind(kind, k, n) ==
  CASE kind = "blank" -> BlankLine
    [] kind = "malformed" -> MalformedLine
    [] kind = "error" -> ErrorLine
    [] kind = "chunk" -> ChunkLine(ChunkText(k, n + 1))
    [] kind = "done" -> DoneLine(<<>>, NoAnalysis)
    [] kind = "doneFull" -> DoneLine(FullResponse, AnalysisObject)

RECURSIVE LinesOfKinds(_, _, _)
LinesOfKinds(kinds, k, n) ==
  IF kinds = <<>>
    THEN <<>>
    ELSE <<LineOfKind(Head(kinds), k, n)>>
           \o LinesOfKinds(Tail(kinds), k, IF Head(kinds) = "chunk" THEN n + 1 ELSE n)

\* --------------------------------------------------- Conversation Controller
Apology(kind) ==
  CASE kind = "send" -> SendApology
    [] kind = "regenerate" -> RegenerateApology
    [] kind = "edit" -> EditApology

FileContentOpen == Str("\n\n=== FILE CONTENT ===\n")

FileContentClose == Str("\n=== END FILE CONTENT ===")

\* analyzeBody of handleSendMessage: framed when the extracted text is non-empty
SendAnalyzeBody(effectiveMessage, fileContent) ==
  IF fileContent # <<>>
    THEN effectiveMessage \o FileContentOpen \o fileContent \o FileContentClose
    ELSE effectiveMessage

\* analyzeBody of handleRegenerateResponse / handleEditLastUserMessage:
\* framed when the user message has a file object
ResendAnalyzeBody(userMessage) ==
  IF userMessage.file.present
    THEN userMessage.content \o FileContentOpen \o userMessage.file.content
           \o FileContentClose
    ELSE userMessage.content

\* One handler call.  pc: "tick" (awaiting the setTimeout(0) after the
\* conversation was created), "fetch" (awaiting the analysis request),
\* "stream" (awaiting reader.read()), "returned".
\* Program values: conv (conversationId / currentConversationId of the
\* closure), text (effectiveMessage), closure (the closure's messages and
\* conversations, read after the tick), base (newMessages / updatedMessages),
\* aid (assistantMessageId), sc (streamingContent), body and session_id (the
\* request's message and session_id).
\* History of the call, kept for the properties: over (the earlier calls
\* whose stream was being read when regenerate / edit was called).
\* History of the stream, kept for the properties while the handler runs:
\* chunks (those of the valid chunk events, in arrival order), done (the last
\* done event), late (a chunk event arrived after a done event); and end (how
\* the handler ended).  When the handler returns its local variables are gone:
\* Returned keeps the ids only.
NewExchange(kind, pc, conv, text, base) ==
  [kind |-> kind, pc |-> pc, conv |-> conv, text |-> text,
   closure |-> [messages |-> <<>>, conversations |-> <<>>],
   base |-> base, aid |-> NULL, sc |-> <<>>, body |-> <<>>, session_id |-> NULL,
   chunks |-> <<>>, done |-> NoEvent, late |-> FALSE, end |-> "none", over |-> {}]

Returned(e, end) ==
  [NewExchange(e.kind, "returned", e.conv, <<>>, e.base)
     EXCEPT !.aid = e.aid, !.end = end, !.over = e.over]

\* the handler calls whose stream is being read
Streaming == {k \in 1..Len(exch) : exch[k].pc = "stream"}

Placeholder(e) == AssistantMessage(e.aid, <<>>, NoAnalysis, TRUE)

\* variant: the new user message is left out of the list
SendAppendNoUser(R, e, userId) ==
  LET userMessage == UserMessage(userId, e.text)
      newMessages == e.closure.messages
      R1 == updateCurrentMessages(R, newMessages, e.conv, NULL)
      ci == FindIndex(e.closure.conversations, LAMBDA c : c.id = e.conv)
      R2 == IF /\ Len(e.closure.messages) = 0
               /\ ci # 0
               /\ e.closure.conversations[ci].title = NewChat
              THEN updateConversationTitle(R1, e.conv, generateTitleFromMessage(e.text))
              ELSE R1
  IN  [repo |-> R2,
       e |-> [e EXCEPT !.pc = "fetch", !.base = newMessages,
                       !.body = SendAnalyzeBody(e.text, <<>>),
                       !.session_id = e.conv,
                       !.closure = [messages |-> <<>>, conversations |-> <<>>]]]

\* handleSendMessage from the construction of userMessage to the request
SendAppend(R, e, userId) ==
  LET userMessage == UserMessage(userId, e.text)
      newMessages == Append(e.closure.messages, userMessage)
      R1 == updateCurrentMessages(R, newMessages, e.conv, NULL)
      ci == FindIndex(e.closure.conversations, LAMBDA c : c.id = e.conv)
      R2 == IF /\ Len(e.closure.messages) = 0
               /\ ci # 0
               /\ e.closure.conversations[ci].title = NewChat
              THEN updateConversationTitle(R1, e.conv, generateTitleFromMessage(e.text))
              ELSE R1
  IN  [repo |-> R2,
       e |-> [e EXCEPT !.pc = "fetch", !.base = newMessages,
                       !.body = SendAnalyzeBody(e.text, <<>>),
                       !.session_id = e.conv,
                       !.closure = [messages |-> <<>>, conversations |-> <<>>]]]

Texts == {<<"c","h","e","c","k"," ","a","d">>}

\* handleSendMessage, called from the input composer or a prompt button
\* (both refuse while isLoading); no file attached
SendStart(text, d) ==
  /\ ~isLoading
  /\ EventLeft
  /\ now + d <= MaxClock
  /\ (d = 2 => \E i \in 1..Len(RenderedMessages) : RenderedMessages[i].id = now + 1)
  /\ now' = now + d
  /\ text # <<>>
  /\ IF currentConversationId = NULL
       THEN \* createConversationOnFirstMessage(), then await setTimeout(0)
            LET newId == now'
                e == [NewExchange("send", "tick", newId, text, <<>>)
                        EXCEPT !.closure = [messages |-> RenderedMessages,
                                            conversations |-> conversations]]
            IN  /\ SetRepo(createConversationOnFirstMessage(Repo, conversations, newId))
                /\ currentConversationId' = newId
                /\ exch' = Append(exch, e)
                /\ UNCHANGED isLoading
       ELSE LET e == [NewExchange("send", "fetch", currentConversationId, text, <<>>)
                        EXCEPT !.closure = [messages |-> RenderedMessages,
                                            conversations |-> conversations]]
                r == SendAppend(Repo, e, now')
            IN  /\ SetRepo(r.repo)
                /\ exch' = Append(exch, r.e)
                /\ isLoading' = TRUE
                /\ UNCHANGED currentConversationId
  /\ UNCHANGED <<ops, reads>>
  /\ call' = Call("sendMessage", Len(exch) + 1)

\* handleSendMessage resumed after the setTimeout(0)
SendAfterTick(k) ==
  /\ k \in 1..Len(exch)
  /\ exch[k].pc = "tick"
  /\ LET r == SendAppend(Repo, exch[k], now)
     IN  /\ SetRepo(r.repo)
         /\ exch' = [exch EXCEPT ![k] = r.e]
  /\ isLoading' = TRUE
  /\ UNCHANGED <<currentConversationId, now, ops, reads>>
  /\ call' = Call("SendAfterTick", k)

\* variant: the error message is appended to the list as it is on screen,
\* partial response included
CatchErrorKeepsPartial(R, e, errorId) ==
  updateCurrentMessages(
    R,
    IF e.sc # <<>>
      THEN e.base \o <<AssistantMessage(e.aid, e.sc, NoAnalysis, TRUE),
                       ErrorMessage(errorId, Apology(e.kind))>>
      ELSE Append(e.base, ErrorMessage(errorId, Apology(e.kind))),
    e.conv, NULL)

\* catch block of the three handlers: the list of the exchange followed by
\* the error message (handleEditLastUserMessage rebuilds the same list from
\* the closure's messages)
CatchError(R, e, errorId) ==
  updateCurrentMessages(R, Append(e.base, ErrorMessage(errorId, Apology(e.kind))),
                        e.conv, NULL)

\* the analysis request settles: ok = a 2xx response whose body can be read
FetchSettles(k, ok) ==
  /\ k \in 1..Len(exch)
  /\ exch[k].pc = "fetch"
  /\ LET e == exch[k]
     IN  IF ok
           THEN LET e1 == [e EXCEPT !.pc = "stream", !.aid = now + 1]
                IN  /\ SetRepo(updateCurrentMessages(
                                 Repo, Append(e.base, Placeholder(e1)), e.conv, NULL))
                    /\ exch' = [exch EXCEPT ![k] = e1]
                    /\ UNCHANGED isLoading
           ELSE /\ SetRepo(CatchError(Repo, e, now + 1))
                /\ exch' = [exch EXCEPT ![k] = Returned(e, "fetchfail")]
                /\ isLoading' = FALSE
  /\ UNCHANGED <<currentConversationId, now, ops, reads>>
  /\ call' = Call("FetchSettles", k)

\* variant: a chunk replaces streamingContent instead of extending it
LineBodyOverwrite(S, line, e) ==
  IF ~line.valid
    THEN [S |-> S, threw |-> TRUE]          \* JSON.parse throws
    ELSE
      LET data == line.json
          S1 == IF data.chunk # <<>>
                  THEN LET sc == data.chunk
                       IN  [S EXCEPT
                              !.sc = sc,
                              !.repo = updateCurrentMessages(
                                 @, Append(e.base, AssistantMessage(e.aid, sc, NoAnalysis, TRUE)),
                                 e.conv, NULL)]
                  ELSE S
          S2 == IF data.done
                  THEN [S1 EXCEPT
                          !.isLoading = FALSE,
                          !.repo = updateCurrentMessages(
                             @, Append(e.base,
                                       AssistantMessage(
                                         e.aid,
                                         IF data.full_response # <<>>
                                           THEN data.full_response ELSE S1.sc,
                                         data.analysis, FALSE)),
                             e.conv, NULL)]
                  ELSE S1
      IN  [S |-> S2, threw |-> data.error # <<>>]   \* throw new Error(data.error)

\* The body of the try block around one line.  S = [repo, isLoading, sc] is
\* the state the loop body reads and writes; threw = an exception left the body.
LineBody(S, line, e) ==
  IF ~line.valid
    THEN [S |-> S, threw |-> TRUE]          \* JSON.parse throws
    ELSE
      LET data == line.json
          S1 == IF data.chunk # <<>>
                  THEN LET sc == S.sc \o data.chunk
                       IN  [S EXCEPT
                              !.sc = sc,
                              !.repo = updateCurrentMessages(
                                 @, Append(e.base, AssistantMessage(e.aid, sc, NoAnalysis, TRUE)),
                                 e.conv, NULL)]
                  ELSE S
          S2 == IF data.done
                  THEN [S1 EXCEPT
                          !.isLoading = FALSE,
                          !.repo = updateCurrentMessages(
                             @, Append(e.base,
                                       AssistantMessage(
                                         e.aid,
                                         IF data.full_response # <<>>
                                           THEN data.full_response ELSE S1.sc,
                                         data.analysis, FALSE)),
                             e.conv, NULL)]
                  ELSE S1
      IN  [S |-> S2, threw |-> data.error # <<>>]   \* throw new Error(data.error)

\* variant: the exception of a line leaves the loop (no catch around the line)
ProcessLineUncaught(S, line, e) ==
  IF line.data
    THEN LineBody(S, line, e)
    ELSE [S |-> S, threw |-> FALSE]

\* try { ... } catch (parseError) { console.error(...) } around one line
ProcessLine(S, line, e) ==
  IF line.data
    THEN [S |-> LineBody(S, line, e).S, threw |-> FALSE]
    ELSE [S |-> S, threw |-> FALSE]

\* for (const line of lines): stops at the first exception that leaves a line
RECURSIVE ProcessLines(_, _, _)
ProcessLines(S, lines, e) ==
  IF lines = <<>>
    THEN [S |-> S, threw |-> FALSE]
    ELSE LET r == ProcessLine(S, Head(lines), e)
         IN  IF r.threw THEN r ELSE ProcessLines(r.S, Tail(lines), e)

\* ----- history of the stream (what arrived, told from the lines alone)
IsChunkLine(line) == line.data /\ line.valid /\ line.json.chunk # <<>>

IsDoneLine(line) == line.data /\ line.valid /\ line.json.done

IsErrorLine(line) == line.data /\ line.valid /\ line.json.error # <<>>

IsMalformedLine(line) == line.data /\ ~line.valid

RECURSIVE Arrived(_, _)
Arrived(e, lines) ==
  IF lines = <<>>
    THEN e
    ELSE LET l == Head(lines)
             e1 == [e EXCEPT
                      !.chunks = IF IsChunkLine(l) THEN Append(@, l.json.chunk) ELSE @,
                      !.late = @ \/ (IsChunkLine(l) /\ e.done.done),
                      !.done = IF IsDoneLine(l) THEN l.json ELSE @]
         IN  Arrived(e1, Tail(lines))

\* what the properties need to know of the lines of one read()
LastContentLine(lines) ==
  IF \E i \in 1..Len(lines) : IsChunkLine(lines[i]) \/ IsDoneLine(lines[i])
    THEN LET i == CHOOSE j \in 1..Len(lines) :
                    /\ IsChunkLine(lines[j]) \/ IsDoneLine(lines[j])
                    /\ \A h \in (j + 1)..Len(lines) :
                          ~(IsChunkLine(lines[h]) \/ IsDoneLine(lines[h]))
         IN  IF IsDoneLine(lines[i]) THEN "done" ELSE "chunk"
    ELSE "none"

Digest(k, lines) ==
  [k |-> k,
   ends |-> LastContentLine(lines),
   malformed |-> \E i \in 1..Len(lines) : IsMalformedLine(lines[i]),
   error |-> \E i \in 1..Len(lines) : IsErrorLine(lines[i]),
   chunkAfterMalformed |->
     \E i, j \in 1..Len(lines) :
       i < j /\ IsMalformedLine(lines[i]) /\ IsChunkLine(lines[j])]

\* reader.read() resolves with data: the lines are folded in order
ReadLines(k, lines) ==
  /\ k \in 1..Len(exch)
  /\ exch[k].pc = "stream"
  /\ reads < MaxReads
  /\ reads' = reads + 1
  /\ LET e == exch[k]
         r == ProcessLines([repo |-> Repo, isLoading |-> isLoading, sc |-> e.sc], lines, e)
         e1 == [Arrived(e, lines) EXCEPT !.sc = r.S.sc]
     IN  IF r.threw
           THEN \* the handler's catch and finally
                /\ SetRepo(CatchError(r.S.repo, e, now + 1))
                /\ exch' = [exch EXCEPT ![k] = Returned(e1, "linethrow")]
                /\ isLoading' = FALSE
           ELSE /\ SetRepo(r.S.repo)
                /\ exch' = [exch EXCEPT ![k] = e1]
                /\ isLoading' = r.S.isLoading
  /\ UNCHANGED <<currentConversationId, now, ops>>
  /\ call' = Call("ReadLines", Digest(k, lines))

\* what the properties need to know of a stream that has ended
StreamDigest(k) ==
  [k |-> k,
   chunks |-> Len(exch[k].chunks),
   done |-> exch[k].done.done,
   full |-> exch[k].done.full_response # <<>>,
   late |-> exch[k].late]

\* variant: the end of the stream writes nothing
ReadDoneSilent(k) ==
  /\ k \in 1..Len(exch)
  /\ exch[k].pc = "stream"
  /\ LET e == exch[k]
         messagesWithStreaming == Append(e.base, Placeholder(e))
         finalised ==
           FindIndex(messagesWithStreaming,
                     LAMBDA m : m.id = e.aid /\ ~m.isStreaming) # 0
     IN  /\ IF e.sc # <<>> /\ finalised
              THEN SetRepo(updateCurrentMessages(
                     Repo, Append(e.base, AssistantMessage(e.aid, e.sc, NoAnalysis, FALSE)),
                     e.conv, NULL))
              ELSE UNCHANGED <<conversations, store, timers>>
         /\ exch' = [exch EXCEPT ![k] = Returned(e, "eos")]
  /\ isLoading' = FALSE
  /\ UNCHANGED <<currentConversationId, now, ops, reads>>
  /\ call' = Call("ReadDone", StreamDigest(k))

\* reader.read() resolves with done: true (end of stream), then finally
ReadDone(k) ==
  /\ k \in 1..Len(exch)
  /\ exch[k].pc = "stream"
  /\ LET e == exch[k]
         messagesWithStreaming == Append(e.base, Placeholder(e))
         finalised ==
           FindIndex(messagesWithStreaming,
                     LAMBDA m : m.id = e.aid /\ ~m.isStreaming) # 0
     IN  /\ IF e.sc # <<>> /\ ~finalised
              THEN SetRepo(updateCurrentMessages(
                     Repo, Append(e.base, AssistantMessage(e.aid, e.sc, NoAnalysis, FALSE)),
                     e.conv, NULL))
              ELSE UNCHANGED <<conversations, store, timers>>
         /\ exch' = [exch EXCEPT ![k] = Returned(e, "eos")]
  /\ isLoading' = FALSE
  /\ UNCHANGED <<currentConversationId, now, ops, reads>>
  /\ call' = Call("ReadDone", StreamDigest(k))

\* variant: a read failure leaves the loading flag as it is
ReadFailsKeepsLoading(k) ==
  /\ k \in 1..Len(exch)
  /\ exch[k].pc = "stream"
  /\ SetRepo(CatchError(Repo, exch[k], now + 1))
  /\ exch' = [exch EXCEPT ![k] = Returned(@, "readfail")]
  /\ UNCHANGED <<currentConversationId, isLoading, now, ops, reads>>
  /\ call' = Call("ReadFails", [k |-> k, partial |-> exch[k].sc # <<>>])

\* reader.read() rejects: the handler's catch and finally
ReadFails(k) ==
  /\ k \in 1..Len(exch)
  /\ exch[k].pc = "stream"
  /\ SetRepo(CatchError(Repo, exch[k], now + 1))
  /\ exch' = [exch EXCEPT ![k] = Returned(@, "readfail")]
  /\ isLoading' = FALSE
  /\ UNCHANGED <<currentConversationId, now, ops, reads>>
  /\ call' = Call("ReadFails", [k |-> k, partial |-> exch[k].sc # <<>>])

\* an id that no message and no conversation has (ids are positive clock
\* readings)
ForeignId == -1

\* variant: the role of the preceding message is not checked
RegenerateAnyPredecessor(mid) ==
  LET messages == RenderedMessages
      messageIndex == FindIndex(messages, LAMBDA m : m.id = mid)
  IN  /\ call' = Call("regenerate", mid)
      /\ IF messageIndex <= 1
           THEN UNCHANGED <<conversations, store, currentConversationId, isLoading,
                            now, timers, exch, ops, reads>>
           ELSE LET userMessage == messages[messageIndex - 1]
                    updatedMessages == SubSeq(messages, 1, messageIndex - 1)
                    e == [NewExchange("regenerate", "fetch", currentConversationId,
                                      userMessage.content, updatedMessages)
                            EXCEPT !.body = ResendAnalyzeBody(userMessage),
                                   !.session_id = currentConversationId,
                                   !.over = Streaming]
                IN  IF FALSE
                      THEN UNCHANGED <<conversations, store, currentConversationId,
                                       isLoading, now, timers, exch, ops, reads>>
                      ELSE /\ EventLeft
                           /\ SetRepo(updateCurrentMessages(
                                        Repo, updatedMessages, currentConversationId,
                                        currentConversationId))
                           /\ isLoading' = TRUE
                           /\ exch' = Append(exch, e)
                           /\ now + 1 <= MaxClock
                           /\ now' = now + 1
                           /\ UNCHANGED <<currentConversationId, ops, reads>>

\* handleRegenerateResponse(assistantMessage); only assistantMessage.id is read
Regenerate(mid) ==
  LET messages == RenderedMessages
      messageIndex == FindIndex(messages, LAMBDA m : m.id = mid)
  IN  /\ call' = Call("regenerate", mid)
      /\ IF messageIndex <= 1
           THEN UNCHANGED <<conversations, store, currentConversationId, isLoading,
                            now, timers, exch, ops, reads>>
           ELSE LET userMessage == messages[messageIndex - 1]
                    updatedMessages == SubSeq(messages, 1, messageIndex - 1)
                    e == [NewExchange("regenerate", "fetch", currentConversationId,
                                      userMessage.content, updatedMessages)
                            EXCEPT !.body = ResendAnalyzeBody(userMessage),
                                   !.session_id = currentConversationId,
                                   !.over = Streaming]
                IN  IF userMessage.type # "user"
                      THEN UNCHANGED <<conversations, store, currentConversationId,
                                       isLoading, now, timers, exch, ops, reads>>
                      ELSE /\ EventLeft
                           /\ SetRepo(updateCurrentMessages(
                                        Repo, updatedMessages, currentConversationId,
                                        currentConversationId))
                           /\ isLoading' = TRUE
                           /\ exch' = Append(exch, e)
                           /\ now + 1 <= MaxClock
                           /\ now' = now + 1
                           /\ UNCHANGED <<currentConversationId, ops, reads>>

\* the index of the last user message, 0 when there is none
LastUserIndex(messages) ==
  IF \E i \in 1..Len(messages) : messages[i].type = "user"
    THEN CHOOSE i \in 1..Len(messages) :
           /\ messages[i].type = "user"
           /\ \A j \in (i + 1)..Len(messages) : messages[j].type # "user"
    ELSE 0

EditTexts == {<<"e","d","i","t">>}

\* variant: the messages after the last user message are kept
EditKeepsTail(newText) ==
  LET messages == RenderedMessages
      lastUserIdx == LastUserIndex(messages)
  IN  /\ call' = Call("editAndResend",
                       [newText |-> newText,
                        discarded |-> IF lastUserIdx = 0 THEN 0
                                      ELSE Len(messages) - lastUserIdx])
      /\ IF lastUserIdx = 0
           THEN \* return inside try: the finally block still runs
                /\ isLoading' = FALSE
                /\ UNCHANGED <<conversations, store, currentConversationId, now, timers,
                               exch, ops, reads>>
           ELSE LET editedUser == [messages[lastUserIdx] EXCEPT !.content = newText]
                    updatedMessages == [messages EXCEPT ![lastUserIdx] = editedUser]
                    e == [NewExchange("edit", "fetch", currentConversationId, newText,
                                      updatedMessages)
                            EXCEPT !.body = ResendAnalyzeBody(editedUser),
                                   !.session_id = currentConversationId,
                                   !.over = Streaming]
                IN  /\ EventLeft
                    /\ SetRepo(updateCurrentMessages(
                                 Repo, updatedMessages, currentConversationId,
                                 currentConversationId))
                    /\ isLoading' = TRUE
                    /\ exch' = Append(exch, e)
                    /\ now + 1 <= MaxClock
                    /\ now' = now + 1
                    /\ UNCHANGED <<currentConversationId, ops, reads>>

\* handleEditLastUserMessage(newText)
EditLastUserMessage(newText) ==
  LET messages == RenderedMessages
      lastUserIdx == LastUserIndex(messages)
  IN  /\ call' = Call("editAndResend",
                       [newText |-> newText,
                        discarded |-> IF lastUserIdx = 0 THEN 0
                                      ELSE Len(messages) - lastUserIdx])
      /\ IF lastUserIdx = 0
           THEN \* return inside try: the finally block still runs
                /\ isLoading' = FALSE
                /\ UNCHANGED <<conversations, store, currentConversationId, now, timers,
                               exch, ops, reads>>
           ELSE LET editedUser == [messages[lastUserIdx] EXCEPT !.content = newText]
                    updatedMessages ==
                      Append(SubSeq(messages, 1, lastUserIdx - 1), editedUser)
                    e == [NewExchange("edit", "fetch", currentConversationId, newText,
                                      updatedMessages)
                            EXCEPT !.body = ResendAnalyzeBody(editedUser),
                                   !.session_id = currentConversationId,
                                   !.over = Streaming]
                IN  /\ EventLeft
                    /\ SetRepo(updateCurrentMessages(
                                 Repo, updatedMessages, currentConversationId,
                                 currentConversationId))
                    /\ isLoading' = TRUE
                    /\ exch' = Append(exch, e)
                    /\ now + 1 <= MaxClock
                    /\ now' = now + 1
                    /\ UNCHANGED <<currentConversationId, ops, reads>>

RenderedIds == {RenderedMessages[i].id : i \in 1..Len(RenderedMessages)}

Titles == {<<"T">>}

Next ==
  \/ \E text \in Texts, d \in 1..2 : SendStart(text, d)
  \/ \E k \in 1..Len(exch) : SendAfterTick(k)
  \/ \E k \in 1..Len(exch), ok \in BOOLEAN : FetchSettles(k, ok)
  \/ \E k \in 1..Len(exch), kinds \in ReadKinds :
       ReadLines(k, LinesOfKinds(kinds, k, Len(exch[k].chunks)))
  \/ \E k \in 1..Len(exch) : ReadDone(k)
  \/ \E k \in 1..Len(exch) : ReadFails(k)
  \/ \E mid \in RenderedIds \cup {ForeignId} : Regenerate(mid)
  \/ \E newText \in EditTexts : EditLastUserMessage(newText)
  \/ TitleTimer
  \/ createNewConversation
  \/ \E id \in ConversationIds \cup {ForeignId} : switchConversation(id)
  \/ \E id \in ConversationIds \cup {ForeignId} : deleteConversation(id)
  \/ \E id \in ConversationIds \cup {ForeignId}, t \in Titles :
       renameConversation(id, t)
  \/ \E id \in ConversationIds \cup {ForeignId} : toggleConversationPin(id)
  \/ clearAllConversations

Spec == Init /\ [][Next]_vars

SpecFresh == InitFresh /\ [][Next]_vars

\* ------------------------------------------------------------- properties
\* the messages of conversation id in a conversation list, <<>> when absent
MessagesIn(convs, id) ==
  LET ci == FindIndex(convs, LAMBDA c : c.id = id)
  IN  IF ci = 0 THEN <<>> ELSE convs[ci].messages

HasConversation(convs, id) == \E i \in 1..Len(convs) : convs[i].id = id

\* the concatenation of chunk texts in arrival order
RECURSIVE Flatten(_)
Flatten(chunks) ==
  IF chunks = <<>> THEN <<>> ELSE Head(chunks) \o Flatten(Tail(chunks))

StreamingCount(messages) ==
  Cardinality({j \in 1..Len(messages) : messages[j].isStreaming})

\* the step just taken is a step of the named operation
Did(op) == call.op = op

\* C1: no conversation of the repository ever holds more than one message
\* with isStreaming = true, whatever sendMessage / regenerate / editAndResend
\* calls were made (also after a stream that ended without content).
C1_AtMostOneStreaming ==
  \A i \in 1..Len(conversations) : StreamingCount(conversations[i].messages) <= 1

\* C2: terminal precedence.  When chunks (text A) were followed by a done
\* event with full_response F # A and the assistant message of the exchange
\* is committed with content F, the end of the stream leaves that message
\* with content F.
C2_TerminalPrecedence ==
  [][ call'.op = "ReadDone" =>
        LET e == exch[call'.arg.k]
            F == e.done.full_response
            Committed(convs) ==
              \E j \in 1..Len(MessagesIn(convs, e.conv)) :
                 /\ MessagesIn(convs, e.conv)[j].id = e.aid
                 /\ MessagesIn(convs, e.conv)[j].content = F
        IN  ( /\ e.chunks # <<>>
              /\ e.done.done
              /\ ~e.late
              /\ F # <<>>
              /\ F # Flatten(e.chunks)
              /\ Committed(conversations) )
            => Committed(conversations') ]_vars

\* C3: an {error} event is terminal.  The read() that delivers one ends the
\* handler, and the conversation's list is the base list followed by one
\* isError assistant message with the operation's apology.
C3_ErrorEventTerminal ==
  [][ (call'.op = "ReadLines" /\ call'.arg.error) =>
        LET k == call'.arg.k
            e == exch[k]
            after == MessagesIn(conversations', e.conv)
        IN  /\ exch'[k].pc = "returned"
            /\ HasConversation(conversations', e.conv) =>
                 /\ Len(after) = Len(e.base) + 1
                 /\ SubSeq(after, 1, Len(e.base)) = e.base
                 /\ after[Len(after)].isError
                 /\ after[Len(after)].content = Apology(e.kind) ]_vars

\* C4: a "data: " line that is not valid JSON is skipped.  The read() that
\* carries one does not end the handler and writes no error message; each
\* read() extends the accumulated text by the valid chunks it carries, in
\* order, and a read() whose last event is a chunk shows that text in the
\* placeholder.
C4_MalformedLineSkipped ==
  [][ call'.op = "ReadLines" =>
        LET k == call'.arg.k
            e == exch[k]
            e1 == exch'[k]
            before == MessagesIn(conversations, e.conv)
            after == MessagesIn(conversations', e.conv)
        IN  /\ call'.arg.malformed =>
                 /\ e1.pc = "stream"
                 /\ \/ after = before
                    \/ /\ Len(after) = Len(e.base) + 1
                       /\ SubSeq(after, 1, Len(e.base)) = e.base
                       /\ after[Len(after)].id = e.aid
                       /\ ~after[Len(after)].isError
            /\ e1.pc = "stream" =>
                 /\ e1.sc = e.sc \o Flatten(SubSeq(e1.chunks, Len(e.chunks) + 1,
                                                   Len(e1.chunks)))
                 /\ (call'.arg.ends = "chunk" /\ HasConversation(conversations', e.conv))
                      => after[Len(after)].content = e1.sc ]_vars

\* a malformed line was followed by a chunk, which is in the placeholder
C4_Witness ==
  /\ Did("ReadLines")
  /\ call.arg.chunkAfterMalformed
  /\ call.arg.ends = "chunk"
  /\ LET e == exch[call.arg.k]
         messages == MessagesIn(conversations, e.conv)
     IN  /\ e.pc = "stream"
         /\ messages # <<>>
         /\ messages[Len(messages)].id = e.aid
         /\ messages[Len(messages)].content = Flatten(e.chunks)
         /\ messages[Len(messages)].content # <<>>

\* C5: after a read() whose last event is the k-th chunk of the exchange, the
\* conversation's list is the base list followed by the streaming placeholder
\* whose content is the concatenation of chunks 1..k in arrival order.
C5_ChunkAccumulationOrder ==
  [][ (call'.op = "ReadLines" /\ call'.arg.ends = "chunk") =>
        LET k == call'.arg.k
            e == exch[k]
            e1 == exch'[k]
        IN  HasConversation(conversations', e.conv) =>
              MessagesIn(conversations', e.conv) =
                Append(e.base,
                       AssistantMessage(e.aid, Flatten(e1.chunks), NoAnalysis, TRUE)) ]_vars

\* three chunks arrived and the placeholder shows them in order
C5_Witness ==
  /\ Did("ReadLines")
  /\ call.arg.ends = "chunk"
  /\ LET k == call.arg.k
         messages == MessagesIn(conversations, exch[k].conv)
     IN  /\ Len(exch[k].chunks) = 3
         /\ messages # <<>>
         /\ messages[Len(messages)].isStreaming
         /\ messages[Len(messages)].content =
              ChunkText(k, 1) \o ChunkText(k, 2) \o ChunkText(k, 3)

\* C6: when the stream ends after one or more chunks and no done event, the
\* conversation's list is the base list followed by the exchange's assistant
\* message with isStreaming = false and the accumulated text as content.
C6_DefensiveCompletion ==
  [][ (call'.op = "ReadDone" /\ call'.arg.chunks > 0 /\ ~call'.arg.done) =>
        LET e == exch[call'.arg.k]
            after == MessagesIn(conversations', e.conv)
        IN  HasConversation(conversations', e.conv) =>
              /\ Len(after) = Len(e.base) + 1
              /\ SubSeq(after, 1, Len(e.base)) = e.base
              /\ after[Len(after)].id = e.aid
              /\ ~after[Len(after)].isStreaming
              /\ after[Len(after)].content = Flatten(e.chunks) ]_vars

\* a stream of chunks ended without a done event and the message is final
C6_Witness ==
  /\ Did("ReadDone")
  /\ call.arg.chunks > 0
  /\ ~call.arg.done
  /\ LET e == exch[call.arg.k]
         messages == MessagesIn(conversations, e.conv)
     IN  /\ messages # <<>>
         /\ messages[Len(messages)].id = e.aid
         /\ ~messages[Len(messages)].isStreaming
         /\ messages[Len(messages)].content # <<>>

\* C7: on a page with nothing stored and no active conversation, a
\* sendMessage(text) without a file whose stream is {chunk: c}, {done: true},
\* end of stream leaves exactly one conversation, stored as shown, whose
\* messages are the user message with content text and the assistant message
\* with content c and isStreaming = false.
C7_FreshSend ==
  [][ ( /\ call'.op = "ReadDone"
        /\ Len(exch) = 1
        /\ ops = 0
        /\ exch[1].kind = "send"
        /\ exch[1].conv # ForeignId     \* sent with no active conversation
        /\ call'.arg.chunks = 1
        /\ call'.arg.done
        /\ ~call'.arg.full
        /\ ~call'.arg.late ) =>
        /\ Len(conversations') = 1
        /\ store' = conversations'
        /\ LET messages == conversations'[1].messages
           IN  /\ Len(messages) = 2
               /\ messages[1].type = "user"
               /\ messages[1].content = exch[1].text
               /\ messages[2].type = "assistant"
               /\ messages[2].content = exch[1].chunks[1]
               /\ ~messages[2].isStreaming
               /\ ~messages[2].isError ]_vars

\* the first send of the page has ended after one chunk and a done event
C7_Witness ==
  /\ Did("ReadDone")
  /\ Len(exch) = 1
  /\ ops = 0
  /\ exch[1].kind = "send"
  /\ call.arg.chunks = 1 /\ call.arg.done /\ ~call.arg.full /\ ~call.arg.late
  /\ Len(conversations) = 1
  /\ Len(conversations[1].messages) = 2
  /\ conversations[1].messages[1].content \in Texts
  /\ conversations[1].messages[2].content = ChunkText(1, 1)

\* C8: when the analysis request fails (it throws or answers non-2xx) or a
\* read of the stream throws, the conversation's list is the base list, which
\* ends with the user message of the exchange, followed by exactly one
\* isError assistant message with the apology of the operation; neither the
\* placeholder nor streamed text remains.
C8_TransportErrorSettlement ==
  [][ ( \/ call'.op = "ReadFails"
        \/ call'.op = "FetchSettles" /\ exch'[call'.arg].end = "fetchfail" ) =>
        LET k == IF call'.op = "ReadFails" THEN call'.arg.k ELSE call'.arg
            e == exch[k]
            after == MessagesIn(conversations', e.conv)
            last == after[Len(after)]
            apology == CASE e.kind = "send" -> SendApology
                         [] e.kind = "regenerate" -> RegenerateApology
                         [] e.kind = "edit" -> EditApology
        IN  /\ exch'[k].pc = "returned"
            /\ e.base # <<>>
            /\ e.base[Len(e.base)].type = "user"
            /\ HasConversation(conversations', e.conv) =>
                 /\ Len(after) = Len(e.base) + 1
                 /\ SubSeq(after, 1, Len(e.base)) = e.base
                 /\ last.type = "assistant"
                 /\ last.isError
                 /\ ~last.isStreaming
                 /\ last.content = apology ]_vars

\* a read threw after text had been streamed; the list ends with the apology
C8_Witness ==
  /\ Did("ReadFails")
  /\ call.arg.partial
  /\ LET e == exch[call.arg.k]
         messages == MessagesIn(conversations, e.conv)
     IN  /\ Len(messages) = Len(e.base) + 1
         /\ messages[Len(messages)].isError
         /\ messages[Len(messages)].content = Apology(e.kind)

\* C9: editAndResend(newText) on a list with a user message writes the
\* messages before the last user message unchanged, then that message with
\* its content replaced by newText and its id kept, and nothing after it.
C9_EditTruncation ==
  [][ call'.op = "editAndResend" =>
        LET messages == RenderedMessages
            after == MessagesIn(conversations', currentConversationId)
        IN  \A u \in 1..Len(messages) :
              ( /\ messages[u].type = "user"
                /\ \A j \in (u + 1)..Len(messages) : messages[j].type # "user" ) =>
                /\ Len(after) = u
                /\ \A i \in 1..(u - 1) : after[i] = messages[i]
                /\ after[u].id = messages[u].id
                /\ after[u] = [messages[u] EXCEPT !.content = call'.arg.newText] ]_vars

\* [user1, assistant1, user2, assistant2] has become [user1, assistant1, user2']
C9_Witness ==
  /\ Did("editAndResend")
  /\ call.arg.discarded > 0
  /\ Len(RenderedMessages) = 3
  /\ RenderedMessages[1].type = "user"
  /\ RenderedMessages[2].type = "assistant"
  /\ RenderedMessages[3].type = "user"
  /\ RenderedMessages[3].content = call.arg.newText

\* C10: regenerate(m) changes nothing (conversation list, stored list,
\* loading flag, pending title callbacks) and issues no request when m is not
\* in the list shown, is its first message, or follows a message that is not a
\* user message; otherwise it writes the messages strictly before m and
\* issues the request.
C10_RegenerateNoOp ==
  [][ call'.op = "regenerate" =>
        LET messages == RenderedMessages
            idx == FindIndex(messages, LAMBDA m : m.id = call'.arg)
        IN  IF idx = 0 \/ idx = 1 \/ messages[idx - 1].type # "user"
              THEN UNCHANGED <<conversations, store, isLoading, timers, exch>>
              ELSE /\ Len(exch') = Len(exch) + 1
                   /\ exch'[Len(exch')].pc = "fetch"
                   /\ MessagesIn(conversations', currentConversationId) =
                        SubSeq(messages, 1, idx - 1) ]_vars

\* regenerate was called on a message that follows an assistant message
C10_Witness ==
  /\ Did("regenerate")
  /\ LET messages == RenderedMessages
         idx == FindIndex(messages, LAMBDA m : m.id = call.arg)
     IN  /\ idx > 1
         /\ messages[idx - 1].type # "user"

\* C11: every step that changes the conversation list leaves the stored list
\* equal to it, so that a reload gives the list as of the last mutation; in
\* particular the stored list is empty after clearAll.
C11_PersistedOnEveryMutation ==
  [][ conversations' # conversations => store' = conversations' ]_vars

\* C12: switchTo(id) with an id that no conversation of the list has leaves
\* the active-conversation pointer and the list as they were.
C12_SwitchToUnknownIsNoOp ==
  [][ (call'.op = "switchConversation" /\ ~HasConversation(conversations, call'.arg)) =>
        /\ currentConversationId' = currentConversationId
        /\ conversations' = conversations ]_vars

\* the conversation id a step of the repository was called with: the id given
\* to rename / delete / togglePin, the target of the replaceMessages calls of
\* a handler step; NULL for every other step
TargetOf(c, exchanges) ==
  CASE c.op \in {"renameConversation", "deleteConversation", "toggleConversationPin"} ->
         c.arg
    [] c.op \in {"FetchSettles", "SendAfterTick"} -> exchanges[c.arg].conv
    [] c.op \in {"ReadLines", "ReadDone", "ReadFails"} -> exchanges[c.arg.k].conv
    [] OTHER -> NULL

\* C13: replaceMessages, rename, delete and togglePin called with an id that
\* no conversation has leave every conversation (title, messages, pinned) and
\* the active-conversation pointer as they were.
C13_MisuseIsNoOp ==
  [][ ( /\ TargetOf(call', exch) # NULL
        /\ ~HasConversation(conversations, TargetOf(call', exch)) ) =>
        /\ conversations' = conversations
        /\ currentConversationId' = currentConversationId ]_vars

\* C14: the navigation actions add no conversation.  A step of
\* createNewConversation or switchTo leaves the conversation list and the
\* stored list as they were; createNewConversation sets the pointer to none
\* and returns null; and only sendMessage ever makes either list longer.
C14_NoConversationUntilSend ==
  [][ /\ call'.op \in {"createNewConversation", "switchConversation"} =>
           /\ conversations' = conversations
           /\ store' = store
      /\ call'.op = "createNewConversation" =>
           /\ currentConversationId' = NULL
           /\ call'.arg = NULL
      /\ (Len(conversations') > Len(conversations) \/ Len(store') > Len(store)) =>
           call'.op = "sendMessage" ]_vars

\* 'new chat' was used from an open conversation, before any send
C14_Witness ==
  /\ Did("createNewConversation")
  /\ exch = <<>>
  /\ ops = 0
  /\ currentConversationId = NULL
  /\ conversations = <<OldConversation>>
  /\ store = <<OldConversation>>

\* the steps of handler calls: those that start an exchange and those that
\* resume one
StartsExchange(c) == c.op \in {"sendMessage", "regenerate", "editAndResend"}

ResumesExchange(c) ==
  c.op \in {"SendAfterTick", "FetchSettles", "ReadLines", "ReadDone", "ReadFails"}

\* C15: one exchange uses one conversation id, fixed when it starts: the
\* active id, or the id of the conversation created for a send from the
\* homepage.  The id never changes, the request carries it as session_id,
\* and no step of the exchange changes the messages of, or removes, a
\* conversation with another id, wherever the active pointer is by then.
C15_ConversationIdCapture ==
  [][ /\ \A k \in 1..Len(exch) : exch'[k].conv = exch[k].conv
      /\ \A k \in 1..Len(exch') :
           exch'[k].pc \in {"fetch", "stream"} => exch'[k].session_id = exch'[k].conv
      /\ Len(exch') > Len(exch) =>
           LET e == exch'[Len(exch')]
           IN  /\ StartsExchange(call')
               /\ IF currentConversationId # NULL
                    THEN e.conv = currentConversationId
                    ELSE /\ ~HasConversation(conversations, e.conv)
                         /\ HasConversation(conversations', e.conv)
                         /\ currentConversationId' = e.conv
      /\ (Len(exch') > Len(exch) \/ ResumesExchange(call')) =>
           LET target == IF Len(exch') > Len(exch)
                           THEN exch'[Len(exch')].conv
                           ELSE TargetOf(call', exch)
           IN  \A i \in 1..Len(conversations) :
                 conversations[i].id # target =>
                   /\ HasConversation(conversations', conversations[i].id)
                   /\ MessagesIn(conversations', conversations[i].id) =
                        conversations[i].messages ]_vars

\* a chunk was folded into the conversation of its exchange after the user
\* had moved to another conversation or to the homepage
C15_Witness ==
  /\ Did("ReadLines")
  /\ call.arg.ends = "chunk"
  /\ LET e == exch[call.arg.k]
         messages == MessagesIn(conversations, e.conv)
     IN  /\ e.conv # currentConversationId
         /\ Len(conversations) > 1
         /\ messages # <<>>
         /\ messages[Len(messages)].id = e.aid
         /\ messages[Len(messages)].content = Flatten(e.chunks)
         /\ messages[Len(messages)].content # <<>>

\* ------------------------------------------- saveToLocalStorage and back
\* Values as JSON.stringify and JSON.parse see them.  A Date and a string
\* are distinct values; numbers, booleans and strings without a Date are
\* written and read back as they are and stand for themselves.
DateValue(ms) == [type |-> "Date", value |-> ToString(ms)]

StringValue(text) == [type |-> "string", value |-> text]

\* Date.prototype.toISOString, for the first milliseconds of the epoch
ToISOString(date) == "1970-01-01T00:00:00.00" \o date.value \o "Z"

\* a Message and a Conversation with the Date fields of the type definitions
StoredMessage(id, timestamp) ==
  [id |-> id, type |-> "user", content |-> <<"h", "i">>, timestamp |-> timestamp]

StoredConversation(id, pinned, messages, createdAt, updatedAt) ==
  [id |-> id, title |-> NewChat, pinned |-> pinned, messages |-> messages,
   createdAt |-> createdAt, updatedAt |-> updatedAt]

\* JSON.stringify: a Date is written through toJSON as its ISO string
StringifyValue(v) == IF v.type = "Date" THEN StringValue(ToISOString(v)) ELSE v

StringifyMessage(m) == [m EXCEPT !.timestamp = StringifyValue(@)]

StringifyConversation(c) ==
  [c EXCEPT !.createdAt = StringifyValue(@),
            !.updatedAt = StringifyValue(@),
            !.messages = [i \in 1..Len(@) |-> StringifyMessage(@[i])]]

\* the item text, as the JSON value it denotes
JSONStringify(data) == [i \in 1..Len(data) |-> StringifyConversation(data[i])]

\* JSON.parse without a reviver: every JSON string is read as a string
JSONParse(item) == item

\* milliseconds of the Date fields, and the arrays explored
MaxStored == 2

StoredTimes == 1..2

StoredConversations ==
  {StoredConversation(1, pinned, messages, DateValue(t), DateValue(u)) :
     pinned \in BOOLEAN,
     messages \in {<<>>} \cup {<<StoredMessage(1, DateValue(m))>> : m \in StoredTimes},
     t \in StoredTimes, u \in StoredTimes}

StoredArrays == UNION {[1..n -> StoredConversations] : n \in 0..MaxStored}

\* a page that is about to save the array in call.arg
InitRoundTrip ==
  /\ \E data \in StoredArrays : call = Call("data", data)
  /\ store = <<>>
  /\ conversations = <<>>
  /\ currentConversationId = NULL
  /\ isLoading = FALSE
  /\ now = StartClock
  /\ timers = <<>>
  /\ exch = <<>>
  /\ ops = 0
  /\ reads = 0

\* saveToLocalStorage(key, data): localStorage.setItem(key, JSON.stringify(data))
saveToLocalStorage ==
  /\ call.op = "data"
  /\ store' = JSONStringify(call.arg)
  /\ call' = Call("saved", call.arg)
  /\ UNCHANGED <<conversations, currentConversationId, isLoading, now, timers, exch,
                 ops, reads>>

\* loadFromLocalStorage(key, defaultValue): the item is a non-empty text
\* ("[]" for the empty array), so it is parsed
loadFromLocalStorage ==
  /\ call.op = "saved"
  /\ call' = Call("loaded", [data |-> call.arg, loaded |-> JSONParse(store)])
  /\ UNCHANGED <<conversations, store, currentConversationId, isLoading, now, timers,
                 exch, ops, reads>>

NextRoundTrip == saveToLocalStorage \/ loadFromLocalStorage

SpecRoundTrip == InitRoundTrip /\ [][NextRoundTrip]_vars

\* C16: save followed by load returns a value equal to the array saved,
\* the createdAt / updatedAt / timestamp fields included.
C16_RoundTrip ==
  call.op = "loaded" => call.arg.loaded = call.arg.data

\* ------------------------------------------------------- title derivation
\* message texts: optional leading blank, optional filler token in lower
\* case or capitalised, optional blank, a body, optional trailing blank
RECURSIVE Repeat(_, _)
Repeat(c, n) == IF n = 0 THEN <<>> ELSE <<c>> \o Repeat(c, n - 1)

\* body lengths around the 47 / 50 character limits
BodyLengths == {0, 1, 46, 47, 49, 50, 51}

TitleBodies ==
  {Repeat("x", n) : n \in BodyLengths} \cup
  { <<"h","e","l","p">>, <<"i","n","g"," ","a","d">>, <<"p","l","e","a","s","e">> }

TitleFillers ==
  {<<>>} \cup {FillerPrefixes[k] : k \in 1..Len(FillerPrefixes)}
         \cup {Capitalize(FillerPrefixes[k]) : k \in 1..Len(FillerPrefixes)}

Blanks == {<<>>, <<" ">>}

TitleMessages ==
  {a \o f \o b \o t \o c : a \in Blanks, f \in TitleFillers, b \in Blanks,
                           t \in TitleBodies, c \in Blanks}

\* a conversation whose first user message is about to be titled
InitTitle ==
  /\ \E message \in TitleMessages : call = Call("message", message)
  /\ store = <<>>
  /\ conversations = <<>>
  /\ currentConversationId = NULL
  /\ isLoading = FALSE
  /\ now = StartClock
  /\ timers = <<>>
  /\ exch = <<>>
  /\ ops = 0
  /\ reads = 0

\* const title = generateTitleFromMessage(firstUserMessage.content)
deriveTitle ==
  /\ call.op = "message"
  /\ call' = Call("title", [message |-> call.arg,
                            title |-> generateTitleFromMessage(call.arg)])
  /\ UNCHANGED <<conversations, store, currentConversationId, isLoading, now, timers,
                 exch, ops, reads>>

NextTitle == deriveTitle

SpecTitle == InitTitle /\ [][NextTitle]_vars

\* The steps of the title algorithm, each stated by what its result is.
\* the text without the blanks at its two ends
Trimmed(s) ==
  LET inked == {h \in 1..Len(s) : ~IsSpace(s[h])}
  IN  IF inked = {} THEN <<>>
      ELSE SubSeq(s, CHOOSE i \in inked : \A h \in inked : i <= h,
                     CHOOSE j \in inked : \A h \in inked : h <= j)

\* s starts with the filler token p, in any mix of upper and lower case
StartsWithToken(s, p) ==
  /\ Len(p) <= Len(s)
  /\ [i \in 1..Len(p) |-> ToLowerCase(s[i])] = p

\* the text without the one filler token it starts with, if it starts with one
FillerRemoved(s) ==
  LET tokens == {FillerPrefixes[k] : k \in 1..Len(FillerPrefixes)}
  IN  IF \E p \in tokens : StartsWithToken(s, p)
        THEN LET p == CHOOSE q \in tokens : StartsWithToken(s, q)
             IN  [i \in 1..(Len(s) - Len(p)) |-> s[i + Len(p)]]
        ELSE s

\* at most 50 characters: a longer text is its first 47 followed by "..."
Shortened(s) ==
  IF Len(s) <= 50 THEN s ELSE [i \in 1..50 |-> IF i <= 47 THEN s[i] ELSE "."]

FirstCapitalised(s) ==
  [i \in 1..Len(s) |-> IF i = 1 THEN ToUpperCase(s[i]) ELSE s[i]]

OrNewChat(s) == IF Len(s) = 0 THEN NewChat ELSE s

\* the five steps: trim, remove the filler token, shorten, capitalise, fall back
FiveStepTitle(message) ==
  OrNewChat(FirstCapitalised(Shortened(FillerRemoved(Trimmed(message)))))

\* the five steps with the blanks left by the filler token trimmed as well
FiveStepTitleTrimmedAgain(message) ==
  OrNewChat(FirstCapitalised(Shortened(Trimmed(FillerRemoved(Trimmed(message))))))

MaxListed == 4

\* variant: the comparison with its operands exchanged
ComparePinnedLast(a, b) ==
  (IF a.pinned THEN 1 ELSE 0) - (IF b.pinned THEN 1 ELSE 0)

\* (a, b) => (b.pinned ? 1 : 0) - (a.pinned ? 1 : 0)
ComparePinned(a, b) ==
  (IF b.pinned THEN 1 ELSE 0) - (IF a.pinned THEN 1 ELSE 0)

\* Array.prototype.sort is a stable sort: x moves in front of the elements
\* that compare greater than it, and of no others
RECURSIVE Insert(_, _)
Insert(sorted, x) ==
  IF sorted # <<>> /\ ComparePinned(sorted[Len(sorted)], x) > 0
    THEN Append(Insert(SubSeq(sorted, 1, Len(sorted) - 1), x), sorted[Len(sorted)])
    ELSE Append(sorted, x)

RECURSIVE Sort(_)
Sort(array) ==
  IF array = <<>> THEN <<>>
  ELSE Insert(Sort(SubSeq(array, 1, Len(array) - 1)), array[Len(array)])

\* [...conversations].sort(...): the copy is sorted, the state array is not
sortedConversations(convs) == Sort(convs)

ListedConversation(id, pinned) ==
  [id |-> id, title |-> NewChat, pinned |-> pinned, messages |-> <<>>]

\* lists in insertion order: ids are creation times, new ones are appended
ListedArrays ==
  UNION {{[i \in 1..n |-> ListedConversation(i, pins[i])] : pins \in [1..n -> BOOLEAN]}
         : n \in 0..MaxListed}

\* a page loaded with a stored list
InitSorted ==
  /\ \E stored \in ListedArrays : conversations = stored /\ store = stored
  /\ currentConversationId = NULL
  /\ isLoading = FALSE
  /\ now = StartClock
  /\ timers = <<>>
  /\ exch = <<>>
  /\ ops = 0
  /\ reads = 0
  /\ call = Call("load", NULL)

\* a render: const sortedConversations = [...conversations].sort(...)
renderSortedConversations ==
  /\ call.op # "sortedConversations"
  /\ call' = Call("sortedConversations", sortedConversations(conversations))
  /\ UNCHANGED <<conversations, store, currentConversationId, isLoading, now, timers,
                 exch, ops, reads>>

NextSorted ==
  \/ \E id \in ConversationIds : toggleConversationPin(id)
  \/ renderSortedConversations

SpecSorted == InitSorted /\ [][NextSorted]_vars

\* position of the conversation in the list
PositionIn(convs, conv) == CHOOSE i \in 1..Len(convs) : convs[i] = conv

\* C18: the sorted view holds every conversation of the collection exactly
\* once, every pinned conversation is in front of every unpinned one,
\* conversations of the same group are in the order of the collection, and
\* computing the view leaves the collection as it was.
C18_SortedView ==
  [][ call'.op = "sortedConversations" =>
        LET view == call'.arg
        IN  /\ conversations' = conversations
            /\ store' = store
            /\ Len(view) = Len(conversations)
            /\ \A i \in 1..Len(conversations) :
                 Cardinality({j \in 1..Len(view) : view[j] = conversations[i]}) = 1
            /\ \A i, j \in 1..Len(view) :
                 (i < j /\ view[j].pinned) => view[i].pinned
            /\ \A i, j \in 1..Len(view) :
                 (i < j /\ view[i].pinned = view[j].pinned) =>
                   PositionIn(conversations, view[i]) < PositionIn(conversations, view[j])
    ]_vars

\* the view of a list of two pinned conversations, each behind an unpinned
\* one, computed after a pin was toggled
C18_Witness ==
  /\ call.op = "sortedConversations"
  /\ ops > 0
  /\ Len(conversations) = MaxListed
  /\ \A i \in 1..Len(conversations) : conversations[i].pinned = (i % 2 = 0)
  /\ call.arg # conversations

\* ------------------------------------------------- settled stream (C19, C20)
\* the assistant message of exchange e in the repository, as a sequence of
\* zero or one messages
AssistantMessageOf(convs, e) ==
  SelectSeq(MessagesIn(convs, e.conv), LAMBDA m : m.id = e.aid)

\* C19: when the stream of an exchange carried a done event with the
\* analysis object R (chunk events before it or not, none after it) and the
\* end of the stream has been processed, the assistant message of the
\* exchange in the repository has analysis R.
C19_AnalysisKept ==
  [][ (/\ call'.op = "ReadDone"
       /\ call'.arg.done
       /\ ~call'.arg.late
       /\ exch[call'.arg.k].done.analysis = AnalysisObject) =>
        \A i \in 1..Len(AssistantMessageOf(conversations', exch[call'.arg.k])) :
          AssistantMessageOf(conversations', exch[call'.arg.k])[i].analysis
            = AnalysisObject ]_vars

\* content, analysis and isStreaming of the assistant message of exchange e
FrozenFields(convs, e) ==
  [i \in 1..Len(AssistantMessageOf(convs, e)) |->
     [content |-> AssistantMessageOf(convs, e)[i].content,
      analysis |-> AssistantMessageOf(convs, e)[i].analysis,
      isStreaming |-> AssistantMessageOf(convs, e)[i].isStreaming]]

\* C20: once a done event of the stream has been folded and the assistant
\* message of the exchange is in the repository with isStreaming = false,
\* no later read() of the same stream (further lines or the end of the
\* stream) changes the content, analysis or isStreaming of that message.
\* (After an error message the handler has returned and reads no more.)
C20_FrozenAfterDone ==
  [][ (/\ call'.op \in {"ReadLines", "ReadDone"}
       /\ exch[call'.arg.k].done.done
       /\ FrozenFields(conversations, exch[call'.arg.k]) # <<>>
       /\ \A i \in 1..Len(FrozenFields(conversations, exch[call'.arg.k])) :
            ~FrozenFields(conversations, exch[call'.arg.k])[i].isStreaming) =>
        FrozenFields(conversations', exch[call'.arg.k])
          = FrozenFields(conversations, exch[call'.arg.k]) ]_vars

\* --------------------------------------------------------- loading flag (C21)
\* The transport is fair to every exchange: the analysis request settles, and
\* its body ends or a read of it fails; setTimeout(0) callbacks run.
Fairness ==
  /\ WF_vars(TitleTimer)
  /\ \A k \in 1..MaxEvents :
       /\ WF_vars(SendAfterTick(k))
       /\ WF_vars(\E ok \in BOOLEAN : FetchSettles(k, ok))
       /\ WF_vars(ReadDone(k) \/ ReadFails(k))

\* the handlers and their continuations, with one line in each read() (the
\* sidebar and settings steps and the lines of a read do not touch the way a
\* handler ends)
NextLive ==
  \/ \E text \in Texts, d \in 1..2 : SendStart(text, d)
  \/ \E k \in 1..Len(exch) : SendAfterTick(k)
  \/ \E k \in 1..Len(exch), ok \in BOOLEAN : FetchSettles(k, ok)
  \/ \E k \in 1..Len(exch), kind \in LineKinds :
       ReadLines(k, LinesOfKinds(<<kind>>, k, Len(exch[k].chunks)))
  \/ \E k \in 1..Len(exch) : ReadDone(k)
  \/ \E k \in 1..Len(exch) : ReadFails(k)
  \/ \E mid \in RenderedIds \cup {ForeignId} : Regenerate(mid)
  \/ \E newText \in EditTexts : EditLastUserMessage(newText)
  \/ TitleTimer
  \/ \E id \in ConversationIds : switchConversation(id)

SpecLive == Init /\ [][NextLive]_vars /\ Fairness

\* C21: the step in which the handler of an exchange returns leaves the
\* loading flag false, whatever the outcome (done event, end of stream
\* without done, failed request, non-2xx response, failed read); and under a
\* fair transport every exchange that has set the flag reaches that step.
C21_LoadingCleared ==
  /\ [][ \A k \in 1..Len(exch) :
           (exch[k].pc # "returned" /\ exch'[k].pc = "returned") => ~isLoading' ]_vars
  /\ \A k \in 1..MaxEvents :
       (k <= Len(exch) /\ exch[k].pc \in {"fetch", "stream"})
         ~> (k <= Len(exch) /\ exch[k].pc = "returned" )

\* two exchanges have returned, one after a failed read, and the flag is false
C21_Witness ==
  /\ Len(exch) = 2
  /\ \A k \in 1..2 : exch[k].pc = "returned"
  /\ \E k \in 1..2 : exch[k].end = "readfail"
  /\ \E k \in 1..2 : exch[k].end = "eos"
  /\ ~isLoading

\* ------------------------------------------------------- message lists (C22, C23)
\* C22: in every state, no two messages of one conversation have the same
\* id (ids are Date.now() for user messages and Date.now() + 1 for
\* assistant and error messages, from a non-decreasing millisecond clock).
C22_UniqueMessageIds ==
  \A c \in 1..Len(conversations) :
    \A i, j \in 1..Len(conversations[c].messages) :
      i # j => conversations[c].messages[i].id # conversations[c].messages[j].id

\* C23: in every state of every conversation, no assistant message directly
\* follows another assistant message, under every interleaving of
\* sendMessage, regenerate, editAndResend and the folds of their streams.
C23_Alternation ==
  \A c \in 1..Len(conversations) :
    \A i \in 1..(Len(conversations[c].messages) - 1) :
      ~( /\ conversations[c].messages[i].type = "assistant"
         /\ conversations[c].messages[i + 1].type = "assistant" )

\* an edit started while a send was streaming in the same conversation, and
\* a fold of the send has written its list after the edit truncated it
C23_Witness ==
  /\ Len(exch) = 2
  /\ exch[1].kind = "send"
  /\ exch[2].kind = "edit"
  /\ exch[1].conv = exch[2].conv
  /\ Did("ReadLines")
  /\ call.arg.k = 1
  /\ call.arg.ends = "chunk"
  /\ Len(MessagesIn(conversations, exch[1].conv)) >= 4

\* ------------------------------------------------------- settlement (C24)
\* C24: once the end of the stream has been processed or a read has failed
\* for an exchange, the conversation of the exchange holds no message with
\* isStreaming = true (also after a stream of zero chunks and no done
\* event, or of an error event only).
C24_SettledNotStreaming ==
  [][ call'.op \in {"ReadDone", "ReadFails"} =>
        StreamingCount(MessagesIn(conversations', exch[call'.arg.k].conv)) = 0 ]_vars

\* ------------------------------------------------- superseded response (C25)
\* the regenerate / edit calls made in the conversation of call k while the
\* stream of call k was being read
Superseding(k) ==
  {j \in 1..Len(exch) : k \in exch[j].over /\ exch[j].conv = exch[k].conv}

\* the call whose fold or end the step was
StepOf(c) ==
  CASE c.op \in {"ReadLines", "ReadDone", "ReadFails"} -> c.arg.k
    [] OTHER -> 0

\* C25: when regenerate or editAndResend was called in a conversation while
\* an earlier exchange of it was streaming, no later fold of the earlier
\* exchange brings back what the call discarded: after each such fold the
\* list still begins with the list the later call wrote (the edited user
\* text included) and holds no assistant message of the earlier exchange;
\* and once both have returned, the list ends with the assistant message of
\* the later one.
C25_SupersededStaysOut ==
  [][ \A k \in {StepOf(call')} \cap (1..Len(exch)), j \in 1..Len(exch) :
        (j \in Superseding(k) /\ HasConversation(conversations', exch[k].conv)) =>
          LET list == MessagesIn(conversations', exch[k].conv)
              base == exch[j].base
          IN  /\ Len(list) >= Len(base)
              /\ SubSeq(list, 1, Len(base)) = base
              /\ \A i \in 1..Len(list) : list[i].id # exch[k].aid
              /\ (exch'[k].pc = "returned" /\ exch'[j].pc = "returned"
                    /\ exch'[j].aid # NULL)
                   => list[Len(list)].id = exch'[j].aid ]_vars

\* ------------------------------------------------------ loading flag (C26)
\* C26: the loading flag is true in every state in which the read loop of
\* some exchange has not ended (also after a done event and before the end
\* of the stream, and after the first of two overlapping exchanges ended).
C26_LoadingWhileReading ==
  Streaming # {} => isLoading

\* ------------------------------------------------- transport chunking (C27)
\* The text of a response body, one character per element; "d", ":" stand
\* for the prefix 'data: ' and a letter for the JSON text.  TextDecoder with
\* {stream: true} gives the characters of the bytes read so far, so a
\* read() chunk is a piece of the text.
MaxBodyLines == 2

BodyLines == { <<"d", ":", "a">>, <<"d", ":", "b">>, <<"x">>, <<>> }

RECURSIVE JoinLines(_)
JoinLines(lines) ==
  IF lines = <<>> THEN <<>> ELSE Head(lines) \o <<"\n">> \o JoinLines(Tail(lines))

\* bodies of newline-terminated lines
Bodies ==
  {JoinLines(lines) : lines \in UNION {[1..n -> BodyLines] : n \in 0..MaxBodyLines}}

\* text.split('\n'): the pieces between the newlines, the last one included
RECURSIVE Split(_)
Split(text) ==
  IF \E i \in 1..Len(text) : text[i] = "\n"
    THEN LET i == CHOOSE j \in 1..Len(text) :
                    text[j] = "\n" /\ \A h \in 1..(j - 1) : text[h] # "\n"
         IN  <<SubSeq(text, 1, i - 1)>> \o Split(SubSeq(text, i + 1, Len(text)))
    ELSE <<text>>

\* variant: what follows the last newline of a chunk is dropped
DecodeChunkNoCarry(buffer, value) ==
  LET lines == Split(buffer \o value)
  IN  [buffer |-> <<>>, lines |-> SubSeq(lines, 1, Len(lines) - 1)]

\* buffer += decoder.decode(value); lines = buffer.split('\n');
\* buffer = lines.pop() || ''
DecodeChunk(buffer, value) ==
  LET lines == Split(buffer \o value)
  IN  [buffer |-> lines[Len(lines)], lines |-> SubSeq(lines, 1, Len(lines) - 1)]

\* line.startsWith('data: '): the lines whose JSON text is parsed
StartsWithData(line) == Len(line) >= 2 /\ line[1] = "d" /\ line[2] = ":"

\* line.slice(6)
EventsOf(lines) ==
  LET data == SelectSeq(lines, StartsWithData)
  IN  [i \in 1..Len(data) |-> SubSeq(data[i], 3, Len(data[i]))]

\* a body and the places where the transport cuts it into read() results
InitChunking ==
  /\ \E body \in Bodies :
       \E cuts \in SUBSET (1..(Len(body) - 1)) :
         call = Call("body", [body |-> body, cuts |-> cuts, at |-> 0,
                              buffer |-> <<>>, lines |-> <<>>])
  /\ store = <<>>
  /\ conversations = <<>>
  /\ currentConversationId = NULL
  /\ isLoading = FALSE
  /\ now = StartClock
  /\ timers = <<>>
  /\ exch = <<>>
  /\ ops = 0
  /\ reads = 0

\* one turn of the read loop with data: the next piece of the body
readChunk ==
  /\ call.op \in {"body", "read"}
  /\ call.arg.at < Len(call.arg.body)
  /\ LET a == call.arg
         to == CHOOSE c \in a.cuts \cup {Len(a.body)} :
                 c > a.at /\ \A h \in a.cuts : h > a.at => c <= h
         r == DecodeChunk(a.buffer, SubSeq(a.body, a.at + 1, to))
     IN  call' = Call("read", [a EXCEPT !.at = to, !.buffer = r.buffer,
                                        !.lines = @ \o r.lines])
  /\ UNCHANGED <<conversations, store, currentConversationId, isLoading, now, timers,
                 exch, ops, reads>>

NextChunking == readChunk

SpecChunking == InitChunking /\ [][NextChunking]_vars

\* C27: when the whole body has been read, in whatever pieces, the lines
\* processed are the lines of the body, each once and in order, nothing is
\* left in the buffer, and the parsed events are those of the body read in
\* one piece.
C27_ChunkingIndependent ==
  (call.op = "read" /\ call.arg.at = Len(call.arg.body)) =>
    /\ JoinLines(call.arg.lines) = call.arg.body
    /\ call.arg.buffer = <<>>
    /\ EventsOf(call.arg.lines) = EventsOf(DecodeChunk(<<>>, call.arg.body).lines)

\* a body of two data lines read to its end in three pieces, cut inside the
\* prefix of the first line and inside the second line
C27_Witness ==
  /\ call.op = "read"
  /\ call.arg.at = Len(call.arg.body)
  /\ call.arg.cuts = {1, 6}
  /\ Len(EventsOf(call.arg.lines)) = 2

\* ------------------------------------------------------ renamed titles (C28)
\* the title of conversation id in a conversation list
TitleIn(convs, id) ==
  convs[CHOOSE i \in 1..Len(convs) : convs[i].id = id].title

\* C28: a title given by renameConversation (a title of Titles, which no
\* message text derives) stays until the next rename of the conversation,
\* whatever replaceMessages calls and title callbacks come after it.
C28_RenameKept ==
  [][ \A id \in ConversationIds :
        ( /\ TitleIn(conversations, id) \in Titles
          /\ HasConversation(conversations', id)
          /\ call'.op # "renameConversation" )
        => TitleIn(conversations', id) = TitleIn(conversations, id) ]_vars

\* ------------------------------------------------------ resent body (C29)
\* handleSendMessage with a file, as far as the message stored and the body
\* sent go.  upload: "none" (no file), "ok" (/api/upload answered with
\* content), "failed" (addFile or the upload threw).
ExtractionFailed == Str("[File: name - Content extraction failed]")

MessageTexts == {<<>>, <<"a">>, <<"b">>, <<"c", "h", "e", "c", "k", " ", "a", "d">>}

ExtractedContents == {<<>>, <<"C">>, <<"D">>, <<"C", "D">>}

SendInputs ==
  {[message |-> m, upload |-> u, extracted |-> c] :
     m \in MessageTexts, u \in {"none", "ok", "failed"}, c \in ExtractedContents}

\* userMessage as built at the start of the handler: fileContent is still ''
SentUserMessage(id, input) ==
  LET effectiveMessage ==
        IF input.message # <<>> THEN input.message ELSE DefaultFileMessage
  IN  [UserMessage(id, effectiveMessage) EXCEPT
         !.file = IF input.upload # "none"
                    THEN [present |-> TRUE, content |-> <<>>]
                    ELSE NoFile]

\* fileContent after the file was processed
FileContentOf(input) ==
  CASE input.upload = "none" -> <<>>
    [] input.upload = "ok" -> input.extracted
    [] input.upload = "failed" -> ExtractionFailed

\* a call of handleSendMessage that passes the first test
InitResend ==
  /\ \E input \in SendInputs :
       /\ input.message # <<>> \/ input.upload # "none"
       /\ input.upload # "ok" => input.extracted = <<>>
       /\ call = Call("input", input)
  /\ store = <<>>
  /\ conversations = <<>>
  /\ currentConversationId = NULL
  /\ isLoading = FALSE
  /\ now = StartClock
  /\ timers = <<>>
  /\ exch = <<>>
  /\ ops = 0
  /\ reads = 0

\* handleSendMessage up to the analysis request
sendWithFile ==
  /\ call.op = "input"
  /\ LET userMessage == SentUserMessage(now, call.arg)
     IN  call' = Call("sent",
                      [input |-> call.arg,
                       userMessage |-> userMessage,
                       body |-> SendAnalyzeBody(userMessage.content,
                                                FileContentOf(call.arg))])
  /\ UNCHANGED <<conversations, store, currentConversationId, isLoading, now, timers,
                 exch, ops, reads>>

\* handleRegenerateResponse on the answer to that message: its request body
regenerateBody ==
  /\ call.op = "sent"
  /\ call' = Call("regenerated",
                  [call.arg EXCEPT !.body = ResendAnalyzeBody(call.arg.userMessage)]
                    @@ [sent |-> call.arg.body])
  /\ UNCHANGED <<conversations, store, currentConversationId, isLoading, now, timers,
                 exch, ops, reads>>

\* handleEditLastUserMessage(newText) on that message: its request body
editBody(newText) ==
  /\ call.op = "sent"
  /\ LET editedUser == [call.arg.userMessage EXCEPT !.content = newText]
     IN  call' = Call("edited",
                      [call.arg EXCEPT !.body = ResendAnalyzeBody(editedUser)]
                        @@ [sent |-> call.arg.body, newText |-> newText])
  /\ UNCHANGED <<conversations, store, currentConversationId, isLoading, now, timers,
                 exch, ops, reads>>

\* the texts an edit of the message sent is saved with: a new one, or its own
SavedTexts ==
  IF call.op = "sent" THEN EditTexts \cup {call.arg.userMessage.content} ELSE {}

NextResend ==
  \/ sendWithFile
  \/ regenerateBody
  \/ \E newText \in SavedTexts : editBody(newText)

SpecResend == InitResend /\ [][NextResend]_vars

\* C29: for a user message sent with a file whose extraction returned the
\* content C, the body sent by regenerate, and by editAndResend with the
\* text unchanged, is the body of the original send: the user text followed
\* by C between '=== FILE CONTENT ===' and '=== END FILE CONTENT ==='.
C29_ResendSameBody ==
  ( /\ call.op \in {"regenerated", "edited"}
    /\ call.arg.input.upload = "ok"
    /\ call.arg.input.extracted # <<>>
    /\ call.op = "edited" => call.arg.newText = call.arg.userMessage.content )
  => /\ call.arg.body = call.arg.sent
     /\ call.arg.sent = call.arg.userMessage.content \o FileContentOpen
                          \o call.arg.input.extracted \o FileContentClose

\* ------------------------------------------------ deleted conversations (C30)
\* the conversation a continuation of a handler or a title callback writes to
FoldTarget(c, exchanges) ==
  CASE c.op \in {"FetchSettles", "SendAfterTick"} -> exchanges[c.arg].conv
    [] c.op \in {"ReadLines", "ReadDone", "ReadFails"} -> exchanges[c.arg.k].conv
    [] c.op = "TitleTimer" -> c.arg
    [] OTHER -> NULL

\* C30: when the conversation of an exchange is no longer in the repository
\* (it was deleted while the exchange was in flight), no chunk, done,
\* end-of-stream or error fold of the exchange and no pending title callback
\* puts a conversation with its id back into the repository or the store,
\* and the fold changes no other conversation.
C30_DeletedStaysDeleted ==
  [][ ( /\ FoldTarget(call', exch) # NULL
        /\ ~HasConversation(conversations, FoldTarget(call', exch)) ) =>
        /\ conversations' = conversations
        /\ ( HasConversation(store', FoldTarget(call', exch)) =>
               HasConversation(store, FoldTarget(call', exch)) ) ]_vars

\* a chunk of the stream of a conversation that was deleted has been folded
\* while another conversation is in the repository
C30_Witness ==
  /\ Did("ReadLines")
  /\ call.arg.ends = "chunk"
  /\ exch[call.arg.k].conv # ForeignId
  /\ ~HasConversation(conversations, exch[call.arg.k].conv)
  /\ ~HasConversation(store, exch[call.arg.k].conv)
  /\ conversations # <<>>
  /\ ops > 0

====
